---- MODULE Spec2Model ----
(***************************************************************************)
(* A model of the feedback backend: the sentiment engine                   *)
(* (Backend/src/utils/Sentimentengine.js), the learning-type rule, the     *)
(* feedback submission and teacher-stats handlers and the two insight      *)
(* synthesizers (Backend/src/routes/feedback.js, Groq and Gemini variant). *)
(*                                                                         *)
(* Text is a sequence of pieces (characters, and words where the inside of *)
(* a word plays no part), so that trimming, lower-casing and parsing are   *)
(* computed and not assumed.                                               *)
(***************************************************************************)
EXTENDS Integers, Sequences, FiniteSets, TLC

VARIABLES
    variant,   \* which version of routes/feedback.js runs: "groq" or "gemini"
    apiKey,    \* whether GROQ_API_KEY / GEMINI_API_KEY is set in the environment
    users,     \* the users collection
    feedbacks, \* the feedbacks collection, in insertion order
    now,       \* the clock: createdAt of the newest record
    started,   \* how many requests of each kind have been made
    sub,       \* the POST / request in flight
    py,        \* the python child process and the promise getSentiment returned
    st,        \* the GET /teacher/stats request in flight
    tst,       \* the GET /test-sentiment request
    pace       \* one evaluation of getLearningType: inputs and result

vars == <<variant, apiKey, users, feedbacks, now, started, sub, py, st, tst, pace>>

(***************************************************************************)
(* Bounds                                                                  *)
(***************************************************************************)
MaxChunks == 2          \* stdout "data" events of one python run
MaxSubmits == 2         \* POST / requests of one run (so, stored records)
MaxStats == 1           \* GET /teacher/stats requests of one run
MaxUpdates == 1         \* PUT /users/:id requests of one run
SubmitMaxChunks == 1    \* stdout "data" events of a submission's python run
MaxStored == 2          \* records of a store that earlier submissions left behind
MaxListed == 6          \* records of a store that outgrows the recent list
MaxTrended == 3         \* records of a store that spans more than one year

(***************************************************************************)
(* Text helpers                                                            *)
(***************************************************************************)
UpperChars == <<"P", "O", "S", "I", "T", "V", "E", "N", "U", "R", "A", "L", "G">>
LowerChars == <<"p", "o", "s", "i", "t", "v", "e", "n", "u", "r", "a", "l", "g">>

LowerChar(c) ==
    IF \E k \in 1..Len(UpperChars) : UpperChars[k] = c
    THEN LowerChars[CHOOSE k \in 1..Len(UpperChars) : UpperChars[k] = c]
    ELSE c

\* String.prototype.toLowerCase
toLowerCase(s) == [i \in 1..Len(s) |-> LowerChar(s[i])]

IsSpace(c) == c \in {" ", "\n"}

\* String.prototype.trim: strips leading and trailing white space
trim(s) ==
    LET keep == {i \in 1..Len(s) : ~IsSpace(s[i])}
    IN  IF keep = {} THEN <<>>
        ELSE SubSeq(s, CHOOSE i \in keep : \A j \in keep : i <= j,
                       CHOOSE i \in keep : \A j \in keep : j <= i)

positive == <<"p", "o", "s", "i", "t", "i", "v", "e">>
neutral  == <<"n", "e", "u", "t", "r", "a", "l">>
negative == <<"n", "e", "g", "a", "t", "i", "v", "e">>

\* Sentimentengine.js:28
validSentiments == {positive, neutral, negative}

(***************************************************************************)
(* getSentiment (Sentimentengine.js:4-46)                                  *)
(***************************************************************************)
\* What the python process may write to stdout in one "data" event.
Chunks ==
    { positive \o <<"\n">>,
      <<"P", "o", "s", "i", "t", "i", "v", "e">>,
      <<"N", "E", "G", "A", "T", "I", "V", "E", "\n">>,
      <<" ">> \o neutral \o <<" ">>,
      <<"p", "o", "s", "i", "\n">>,
      <<"t", "i", "v", "e", "\n">>,
      <<"g", "o", "o", "d">>,
      <<"\n">> }

ExitCodes == {0, 1}

PyIdle ==
    [state |-> "none", result |-> <<>>, chunks |-> <<>>,
     code |-> 0, promise |-> "pending", value |-> <<>>]

\* resolve(v) of the promise: the first settlement wins, later ones are ignored.
Resolve(p, v) ==
    IF p.promise = "pending" THEN [p EXCEPT !.promise = "resolved", !.value = v]
    ELSE p

\* spawn("py", ["-3.11", scriptPath, text]) and the handlers' registration
Spawned == [PyIdle EXCEPT !.state = "running"]

\* pythonProcess.stdout.on("data"): result += data.toString().trim()
OnData(p, chunk) ==
    [p EXCEPT !.result = p.result \o trim(chunk),
              !.chunks = Append(p.chunks, chunk)]

OnClose(p, code) ==
    IF code = 0 /\ p.result # <<>>
    THEN IF toLowerCase(p.result) \in validSentiments
         THEN Resolve([p EXCEPT !.state = "closed", !.code = code],
                      toLowerCase(p.result))
         ELSE Resolve([p EXCEPT !.state = "closed", !.code = code], neutral)
    ELSE Resolve([p EXCEPT !.state = "closed", !.code = code], neutral)

OnError(p) == Resolve([p EXCEPT !.state = "failed"], neutral)

\* The child process's events, common to every caller of getSentiment.
PyData(chunkSet, maxChunks) ==
    /\ py.state = "running"
    /\ Len(py.chunks) < maxChunks
    /\ \E chunk \in chunkSet : py' = OnData(py, chunk)

PyClose ==
    /\ py.state = "running"
    /\ \E code \in ExitCodes : py' = OnClose(py, code)

PyError ==
    /\ py.state = "running"
    /\ py.chunks = <<>>
    /\ py' = OnError(py)

PyCloseAfterError ==
    /\ py.state = "failed"
    /\ \E code \in {-2} : py' = OnClose(py, code)   \* a negative errno

(***************************************************************************)
(* GET /test-sentiment (feedback.js:306-326, 688-717)                      *)
(***************************************************************************)
TstIdle == [pc |-> "idle", status |-> 0, sentiment |-> <<>>]

TestSentimentStart ==
    /\ tst.pc \in {"idle", "done"}
    /\ py.state \in {"none", "closed"}
    /\ tst' = [TstIdle EXCEPT !.pc = "await"]
    /\ py' = Spawned
    /\ UNCHANGED <<variant, apiKey, users, feedbacks, now, started, sub, st, pace>>

TestSentimentRespond ==
    /\ tst.pc = "await"
    /\ py.promise # "pending"
    /\ tst' = IF py.promise = "resolved"
              THEN [pc |-> "done", status |-> 200, sentiment |-> py.value]
              ELSE [pc |-> "done", status |-> 500, sentiment |-> <<>>]
    /\ UNCHANGED <<variant, apiKey, users, feedbacks, now, started, sub, st, py, pace>>

TestPyData == PyData(Chunks, MaxChunks) /\ UNCHANGED <<variant, apiKey, users, feedbacks, now, started, sub, st, tst, pace>>
TestPyClose == PyClose /\ UNCHANGED <<variant, apiKey, users, feedbacks, now, started, sub, st, tst, pace>>
TestPyError == PyError /\ UNCHANGED <<variant, apiKey, users, feedbacks, now, started, sub, st, tst, pace>>
TestPyCloseAfterError == PyCloseAfterError /\ UNCHANGED <<variant, apiKey, users, feedbacks, now, started, sub, st, tst, pace>>

(***************************************************************************)
(* getLearningType (feedback.js:124-127, 474-479)                          *)
(***************************************************************************)
MaxAttendance == 100
MaxMarks == 100

\* The rule with attendance compared by > instead of >=.
getLearningTypeStrict(attendance, marks) ==
    IF attendance > 85 /\ marks >= 75 THEN "Fast Learner" ELSE "Slow Learner"

getLearningType(attendance, marks) ==
    IF attendance >= 85 /\ marks >= 75 THEN "Fast Learner" ELSE "Slow Learner"

PaceIdle == [attendance |-> 0, marks |-> 0, out |-> "none"]

Classify ==
    /\ pace.out = "none"
    /\ pace' = [pace EXCEPT !.out = getLearningType(pace.attendance, pace.marks)]
    /\ UNCHANGED <<variant, apiKey, users, feedbacks, now, started, sub, st, py, tst>>

(***************************************************************************)
(* JavaScript values and JSON.parse                                        *)
(*                                                                         *)
(* A text is a sequence of pieces: a piece is one character of syntax or   *)
(* white space, or a word (a run of characters that holds no white space,  *)
(* quote, brace, bracket, colon or comma).                                 *)
(***************************************************************************)
JsVal(t, s, n, items, keys) ==
    [t |-> t, s |-> s, n |-> n, items |-> items, keys |-> keys]

Undefined == JsVal("undefined", <<>>, 0, <<>>, <<>>)
Null      == JsVal("null", <<>>, 0, <<>>, <<>>)
Str(s)    == JsVal("string", s, 0, <<>>, <<>>)
Num(n)    == JsVal("number", <<>>, n, <<>>, <<>>)
Arr(xs)   == JsVal("array", <<>>, 0, xs, <<>>)
Obj(ks, vs) == JsVal("object", <<>>, 0, vs, ks)

\* ToBoolean
Truthy(v) ==
    CASE v.t \in {"undefined", "null"} -> FALSE
      [] v.t = "string" -> v.s # <<>>
      [] v.t = "number" -> v.n # 0
      [] OTHER -> TRUE

\* v[key] of a parsed value: the last member of that name in an object,
\* undefined in anything else (null and undefined throw before this is used).
Prop(v, key) ==
    IF v.t = "object" /\ \E i \in 1..Len(v.keys) : v.keys[i] = key
    THEN v.items[CHOOSE i \in 1..Len(v.keys) :
                    /\ v.keys[i] = key
                    /\ \A j \in 1..Len(v.keys) : v.keys[j] = key => j <= i]
    ELSE Undefined

Digits == <<"0", "1", "2", "3", "4", "5", "6", "7", "8", "9">>
IsDigit(c) == \E d \in 1..Len(Digits) : Digits[d] = c
DigitVal(c) == (CHOOSE d \in 1..Len(Digits) : Digits[d] = c) - 1

\* The first position at or after i that holds no white space (Len(s)+1: none).
SkipWs(s, i) ==
    IF \E j \in i..Len(s) : ~IsSpace(s[j])
    THEN CHOOSE j \in i..Len(s) :
            /\ ~IsSpace(s[j])
            /\ \A k \in i..(j - 1) : IsSpace(s[k])
    ELSE Len(s) + 1

ParseFail == [ok |-> FALSE, v |-> Undefined, next |-> 0]
ParseOk(v, next) == [ok |-> TRUE, v |-> v, next |-> next]

RECURSIVE ParseDigits(_, _, _)
ParseDigits(s, i, acc) ==
    IF i <= Len(s) /\ IsDigit(s[i])
    THEN ParseDigits(s, i + 1, 10 * acc + DigitVal(s[i]))
    ELSE ParseOk(Num(acc), i)

\* A string literal that opens at i: up to the next quote; a raw line break
\* inside a literal is a syntax error.
ParseString(s, i) ==
    IF \E j \in (i + 1)..Len(s) : s[j] = "\""
    THEN LET j == CHOOSE j \in (i + 1)..Len(s) :
                     /\ s[j] = "\""
                     /\ \A k \in (i + 1)..(j - 1) : s[k] # "\""
         IN  IF \E k \in (i + 1)..(j - 1) : s[k] = "\n"
             THEN ParseFail
             ELSE ParseOk(Str(SubSeq(s, i + 1, j - 1)), j + 1)
    ELSE ParseFail

RECURSIVE ParseValue(_, _), ParseElements(_, _, _), ParseMembers(_, _, _, _)

\* The JSON value that starts at the first non-blank position at or after i.
ParseValue(s, i0) ==
    LET i == SkipWs(s, i0)
    IN  IF i > Len(s) THEN ParseFail
        ELSE CASE s[i] = "{" ->
                    IF SkipWs(s, i + 1) <= Len(s) /\ s[SkipWs(s, i + 1)] = "}"
                    THEN ParseOk(Obj(<<>>, <<>>), SkipWs(s, i + 1) + 1)
                    ELSE ParseMembers(s, i + 1, <<>>, <<>>)
               [] s[i] = "[" ->
                    IF SkipWs(s, i + 1) <= Len(s) /\ s[SkipWs(s, i + 1)] = "]"
                    THEN ParseOk(Arr(<<>>), SkipWs(s, i + 1) + 1)
                    ELSE ParseElements(s, i + 1, <<>>)
               [] s[i] = "\"" -> ParseString(s, i)
               [] IsDigit(s[i]) -> ParseDigits(s, i, 0)
               [] s[i] = "n" ->
                    IF i + 3 <= Len(s) /\ SubSeq(s, i, i + 3) = <<"n", "u", "l", "l">>
                    THEN ParseOk(Null, i + 4)
                    ELSE ParseFail
               [] OTHER -> ParseFail

\* value (, value)* ]
ParseElements(s, i, acc) ==
    LET r == ParseValue(s, i)
        j == SkipWs(s, r.next)
    IN  IF ~r.ok \/ j > Len(s) THEN ParseFail
        ELSE CASE s[j] = "," -> ParseElements(s, j + 1, Append(acc, r.v))
               [] s[j] = "]" -> ParseOk(Arr(Append(acc, r.v)), j + 1)
               [] OTHER -> ParseFail

\* "key" : value (, "key" : value)* }
ParseMembers(s, i0, ks, vs) ==
    LET i == SkipWs(s, i0)
        k == IF i <= Len(s) /\ s[i] = "\"" THEN ParseString(s, i) ELSE ParseFail
        c == SkipWs(s, k.next)
    IN  IF ~k.ok \/ c > Len(s) \/ s[c] # ":" THEN ParseFail
        ELSE LET r == ParseValue(s, c + 1)
                 j == SkipWs(s, r.next)
             IN  IF ~r.ok \/ j > Len(s) THEN ParseFail
                 ELSE CASE s[j] = "," ->
                             ParseMembers(s, j + 1, Append(ks, k.v.s), Append(vs, r.v))
                        [] s[j] = "}" ->
                             ParseOk(Obj(Append(ks, k.v.s), Append(vs, r.v)), j + 1)
                        [] OTHER -> ParseFail

\* The parse of the whole text: nothing but white space may follow the value.
Whole(s, r) == IF r.ok /\ SkipWs(s, r.next) > Len(s) THEN r ELSE ParseFail

\* JSON.parse(text): [ok |-> FALSE] stands for the SyntaxError it throws.
JSONparse(s) == Whole(s, ParseValue(s, 1))

\* text.match(/\{[\s\S]*\}/): from the first opening brace to the last closing
\* brace after it; <<>> when there is none (the match is null).
MatchBraces(s) ==
    LET opens  == {i \in 1..Len(s) : s[i] = "{"}
        first  == CHOOSE i \in opens : \A j \in opens : i <= j
        closes == {i \in 1..Len(s) : s[i] = "}" /\ i > first}
    IN  IF opens = {} \/ closes = {} THEN <<>>
        ELSE SubSeq(s, first, CHOOSE i \in closes : \A j \in closes : j <= i)

(***************************************************************************)
(* The generation service                                                  *)
(***************************************************************************)
Q == <<"\"">>
Lit(s) == Q \o s \o Q                       \* a JSON string literal
Member(k, v) == Lit(<<k>>) \o <<":">> \o v
Object2(m1, m2) == <<"{">> \o m1 \o <<",", " ">> \o m2 \o <<"}">>
Object1(m1) == <<"{">> \o m1 \o <<"}">>
Array2(a, b) == <<"[">> \o a \o <<",">> \o b \o <<"]">>
Array4(a, b, c, d) == <<"[">> \o a \o <<",">> \o b \o <<",">> \o c \o <<",">> \o d \o <<"]">>

GoodSummary == <<"Clear", " ", "lectures">>
ObjGood ==
    Object2(Member("summary", Lit(GoodSummary)),
            Member("improvementAreas", Array2(Lit(<<"pace">>), Lit(<<"examples">>))))
ObjDup ==
    Object2(Member("summary", Lit(GoodSummary)),
            Member("improvementAreas",
                   Array4(Lit(<<"pace">>), Lit(<<" ", "pace">>), Lit(<<"examples">>),
                          Lit(<<"pace", " ">>))))
ObjMixed ==
    Object2(Member("summary", Lit(GoodSummary)),
            Member("improvementAreas",
                   Array4(<<"4", "2">>, Lit(<<"pace">>), Lit(<<" ">>), <<"n", "u", "l", "l">>)))
ObjBlank ==
    Object2(Member("summary", Lit(<<" ">>)), Member("improvementAreas", <<"[", "]">>))
ObjNumSummary ==
    Object2(Member("summary", <<"4", "2">>),
            Member("improvementAreas", Array2(Lit(<<"pace">>), Lit(<<"examples">>))))
ObjAreasNotArray ==
    Object2(Member("summary", Lit(GoodSummary)), Member("improvementAreas", Lit(<<"pace">>)))
ObjSynonym ==
    Object2(Member("summary", Lit(GoodSummary)),
            Member("areas", Array2(Lit(<<"pace">>), Lit(<<"examples">>))))
ObjNoSummary ==
    Object1(Member("improvementAreas", Array2(Lit(<<"pace">>), Lit(<<"pace">>))))

Objects ==
    {ObjGood, ObjDup, ObjMixed, ObjBlank, ObjNumSummary, ObjAreasNotArray,
     ObjSynonym, ObjNoSummary}

ProseBefore == <<"Here", " ", "it", " ", "is", ":", " ">>
ProseAfter == <<" ", "Thanks">>
ProseAfterBraces == <<" ", "(", "see", " ", "{", "note", "}", ")">>
PlainProse == <<"Great", " ", "teacher", " ", "overall">>

\* The content the service may answer with.
Texts ==
    Objects
    \cup {ProseBefore \o o \o ProseAfter : o \in {ObjGood, ObjDup}}
    \cup {ProseBefore \o o \o ProseAfterBraces : o \in {ObjGood, ObjDup}}
    \cup { <<>>, <<" ">>, PlainProse, <<" ">> \o PlainProse \o <<"\n">>,
           <<"Use", " ", "{", "braces", "}">>, <<"n", "u", "l", "l">>, <<"4", "2">>,
           Array2(Lit(<<"pace">>), Lit(<<"examples">>)), Lit(PlainProse) }

\* What one fetch of the service ends in: the request fails (the promise
\* rejects), a non-success status with a body, a success status whose body is
\* not JSON, or a success status whose JSON body carries `text` as content.
Reply(kind, text, statusText) == [kind |-> kind, text |-> text, statusText |-> statusText]
NoReply == Reply("none", <<>>, <<>>)

Replies(texts) ==
    {Reply("unreachable", <<>>, <<>>), Reply("badjson", <<>>, <<>>)}
    \cup {Reply("status", t, s) :
            t \in {<<>>, <<"quota", " ", "exceeded">>}, s \in {<<>>, <<"Forbidden">>}}
    \cup {Reply("ok", t, <<"OK">>) : t \in texts}

\* Messages of the errors the runtime raises.
FetchFailedMessage == <<"fetch", " ", "failed">>
SyntaxErrorMessage == <<"Unexpected", " ", "token", " ", "in", " ", "JSON">>
NullPropertyMessage == <<"Cannot", " ", "read", " ", "properties", " ", "of", " ", "null">>

(***************************************************************************)
(* Sanitizing the improvement areas                                        *)
(***************************************************************************)
\* raw.map((v) => (typeof v === "string" ? v.trim() : "")).filter(Boolean)
Cleaned(raw) ==
    SelectSeq([i \in 1..Len(raw) |-> IF raw[i].t = "string" THEN trim(raw[i].s) ELSE <<>>],
              LAMBDA x : x # <<>>)

\* Array.from(new Set(xs)): the first occurrence of each value, in order
RECURSIVE ArrayFromSet(_)
ArrayFromSet(xs) ==
    IF xs = <<>> THEN <<>>
    ELSE LET front == ArrayFromSet(SubSeq(xs, 1, Len(xs) - 1))
             last  == xs[Len(xs)]
         IN  IF \E i \in 1..Len(front) : front[i] = last THEN front
             ELSE Append(front, last)

\* Array.isArray(v) ? v : []
ArrayOrEmpty(v) == IF v.t = "array" THEN v.items ELSE <<>>

(***************************************************************************)
(* callGroqInsights (feedback.js:23-103)                                   *)
(***************************************************************************)
Insight(summary, areas) ==
    [thrown |-> FALSE, message |-> <<>>, summary |-> summary, improvementAreas |-> areas]
Throw(message) ==
    [thrown |-> TRUE, message |-> message, summary |-> Undefined, improvementAreas |-> <<>>]

\* feedback.js:80-87: JSON.parse, else the brace match, parsed in its turn
GroqParse(outputText) ==
    LET direct == JSONparse(outputText)
        match  == MatchBraces(outputText)
    IN  IF direct.ok THEN direct
        ELSE IF match = <<>> THEN ParseFail
        ELSE JSONparse(match)

GroqParseMessage(outputText) ==
    IF MatchBraces(outputText) = <<>> THEN <<"Invalid", " ", "Groq", " ", "JSON">>
    ELSE SyntaxErrorMessage

GroqAreas(parsed) ==
    LET cleaned == Cleaned(ArrayOrEmpty(Prop(parsed, <<"improvementAreas">>)))
    IN  IF Len(cleaned) > 0 THEN ArrayFromSet(cleaned)
        ELSE << <<"Groq did not return improvement areas">> >>

GroqSummary(parsed) ==
    IF Truthy(Prop(parsed, <<"summary">>)) THEN Prop(parsed, <<"summary">>)
    ELSE Str(<<"Summary not available.">>)

\* The call without its key check.
GroqFetchesAlways(key) == TRUE

\* Whether the call reaches fetch (feedback.js:24-26, 58)
GroqFetches(key) == key

\* feedback.js:80-102: the result built from `parsed` (p)
GroqResult(p, outputText) ==
    IF ~p.ok THEN Throw(GroqParseMessage(outputText))
    ELSE IF p.v.t = "null" THEN Throw(NullPropertyMessage)
    ELSE Insight(GroqSummary(p.v), GroqAreas(p.v))

\* The call's outcome, `reply` being that of the fetch when one is made.
callGroqInsights(key, reply) ==
    IF ~key THEN Throw(<<"Groq API key missing on server">>)
    ELSE CASE reply.kind = "unreachable" -> Throw(FetchFailedMessage)
           [] reply.kind = "status" -> Throw(<<"Groq API failed">>)
           [] reply.kind = "badjson" -> Throw(SyntaxErrorMessage)
           [] OTHER ->
                IF reply.text = <<>> THEN Throw(<<"Empty Groq response">>)
                ELSE GroqResult(GroqParse(reply.text), reply.text)

(***************************************************************************)
(* callGeminiInsights (feedback.js:343-453)                                *)
(***************************************************************************)
\* feedback.js:411-425: null (here [ok |-> FALSE]) when nothing parses
tryParse(txt) ==
    LET direct == JSONparse(txt)
        match  == MatchBraces(txt)
    IN  IF direct.ok THEN direct
        ELSE IF match # <<>> THEN JSONparse(match)
        ELSE ParseFail

\* Whether the call reaches fetch (feedback.js:344-356, 385)
GeminiFetches(key, nTexts) == key /\ nTexts > 0

\* feedback.js:428-452: the result built from `parsed` (p), else the raw text
GeminiResult(p, outputText) ==
    LET isObject == p.ok /\ p.v.t \in {"object", "array"}
        sv == Prop(p.v, <<"summary">>)
        summary == IF sv.t = "string" THEN trim(sv.s) ELSE <<>>
        areasRaw ==
            IF Prop(p.v, <<"improvementAreas">>).t = "array"
            THEN Prop(p.v, <<"improvementAreas">>).items
            ELSE ArrayOrEmpty(Prop(p.v, <<"areas">>))
        improvementAreas == Cleaned(areasRaw)
    IN  IF isObject /\ (summary # <<>> \/ Len(improvementAreas) > 0)
        THEN Insight(Str(IF summary # <<>> THEN summary
                         ELSE <<"Summary not returned by Gemini.">>),
                     IF Len(improvementAreas) > 0 THEN improvementAreas
                     ELSE << <<"Gemini did not return improvement areas.">> >>)
        ELSE Insight(Str(outputText), <<>>)

GeminiParsed(outputText) == GeminiResult(tryParse(outputText), outputText)

callGeminiInsights(key, nTexts, reply) ==
    IF ~key
    THEN Insight(Str(<<"Gemini API key is missing on the server; please set GEMINI_API_KEY.">>),
                 << <<"Gemini API key not configured on server.">> >>)
    ELSE IF nTexts = 0
    THEN Insight(Str(<<"More feedback is needed to generate a summary.">>),
                 << <<"Not enough feedback to analyze yet.">> >>)
    ELSE CASE reply.kind = "unreachable" -> Throw(FetchFailedMessage)
           [] reply.kind = "status" ->
                Throw(IF reply.text # <<>> THEN reply.text ELSE reply.statusText)
           [] reply.kind = "badjson" -> Throw(SyntaxErrorMessage)
           [] OTHER ->
                IF trim(reply.text) = <<>>
                THEN Insight(Str(<<"Gemini did not return any text to summarize.">>),
                             << <<"Gemini returned no content.">> >>)
                ELSE GeminiParsed(trim(reply.text))

(***************************************************************************)
(* The stored data                                                         *)
(***************************************************************************)
Students == {"s0", "s1"}       \* s0: a token whose user document is gone
Teachers == {"t1", "t2"}
UserIds == Students \cup Teachers

\* role of the token's user (models/User.js:22-26)
RoleOf(u) == IF u \in Teachers THEN "teacher" ELSE "student"

Categories == {"teacher", "hostel", "campus"}       \* models/User.js:92
\* req.body.teacherId: absent, a teacher's id, or a string that is no ObjectId
TeacherRefs == {"none", "bad"} \cup Teachers

\* models/User.js:34-55: the schema's defaults
DefaultAttendance == 80
DefaultMarks == 0
\* feedback.js:144
MinAttendance == 75

InitUsers ==
    [u \in UserIds |->
        [exists |-> u # "s0", attendance |-> DefaultAttendance, marks |-> DefaultMarks]]

TicksPerMonth == 2
\* { $month: "$createdAt" }
MonthOf(t) == ((t \div TicksPerMonth) % 12) + 1
monthsInYear ==
    <<"Jan", "Feb", "Mar", "Apr", "May", "Jun", "Jul", "Aug", "Sep", "Oct", "Nov", "Dec">>

\* new Feedback({...}) with the timestamps option (models/User.js:84-122)
Feedback(userId, category, teacherId, sentiment, learningType, createdAt) ==
    [userId |-> userId, category |-> category, teacherId |-> teacherId,
     sentiment |-> sentiment, learningType |-> learningType, createdAt |-> createdAt]

\* Schema validation on save: teacherId is required when category is teacher.
FeedbackValid(f) ==
    /\ f.category \in Categories
    /\ f.category = "teacher" => f.teacherId # "none"
    /\ f.sentiment \in validSentiments
    /\ f.learningType \in {"Fast Learner", "Slow Learner"}

(***************************************************************************)
(* Queries of the teacher-stats handlers                                   *)
(***************************************************************************)
\* Groq variant, feedback.js:202-205
GroqQuery(f, teacherId) == f.category = "teacher" /\ f.teacherId = teacherId

\* Gemini variant, feedback.js:554-567; learningType "none": no filter given
\* in the request, or no learningType in the record
matchQuery(f, teacherId, learningType) ==
    /\ f.category = "teacher"
    /\ f.teacherId = teacherId
    /\ learningType = "Fast Learner" => f.learningType = "Fast Learner"
    /\ learningType = "Slow Learner" => f.learningType \in {"Slow Learner", "none"}

\* A query that leaves out the test of the teacher reference.
FoundOfAnyTeacher(store, variant_, teacherId, learningType) ==
    {i \in 1..Len(store) : store[i].category = "teacher"}

Found(store, variant_, teacherId, learningType) ==
    {i \in 1..Len(store) :
        IF variant_ = "groq" THEN GroqQuery(store[i], teacherId)
        ELSE matchQuery(store[i], teacherId, learningType)}

\* .sort({ createdAt: -1 })
RECURSIVE SortCreatedDesc(_, _)
SortCreatedDesc(store, ids) ==
    IF ids = {} THEN <<>>
    ELSE LET newest == CHOOSE i \in ids :
                          \A j \in ids : store[j].createdAt <= store[i].createdAt
         IN  <<newest>> \o SortCreatedDesc(store, ids \ {newest})

\* The documents in their natural (insertion) order
RECURSIVE Ascending(_)
Ascending(ids) ==
    IF ids = {} THEN <<>>
    ELSE LET least == CHOOSE i \in ids : \A j \in ids : i <= j
         IN  <<least>> \o Ascending(ids \ {least})

\* .limit(5) and .slice(0, 5)
RecentLimit == 5

\* A limit that lets one document more through.
LimitOneMore(seq, n) == SubSeq(seq, 1, IF Len(seq) < n + 1 THEN Len(seq) ELSE n + 1)

Limit(seq, n) == SubSeq(seq, 1, IF Len(seq) < n THEN Len(seq) ELSE n)

\* A count in which every record also counts as neutral.
CountNeutralTwice(store, ids, label) ==
    Cardinality({i \in ids : store[i].sentiment = label \/ label = neutral})

\* feedback.js:209-219 and 572-578
sentimentCount(store, ids, label) ==
    Cardinality({i \in ids : store[i].sentiment = label})

\* feedback.js:593-616: one bucket per month that has a record, ascending
RECURSIVE TrendFrom(_, _, _)
TrendFrom(store, ids, m) ==
    IF m > 12 THEN <<>>
    ELSE LET n == Cardinality({i \in ids : MonthOf(store[i].createdAt) = m})
         IN  (IF n > 0 THEN << [month |-> monthsInYear[m], count |-> n] >> ELSE <<>>)
             \o TrendFrom(store, ids, m + 1)

\* A trend that reports every month of the year, the empty ones with count 0.
TrendOfAllMonths(store, ids) ==
    [m \in 1..12 |->
        [month |-> monthsInYear[m],
         count |-> Cardinality({i \in ids : MonthOf(store[i].createdAt) = m})]]

monthlyTrendPipeline(store, ids) == TrendFrom(store, ids, 1)

(***************************************************************************)
(* The insight section of the teacher-stats response                       *)
(***************************************************************************)
ServerError == [status |-> 500, summary |-> Undefined, improvementAreas |-> <<>>]
Success(summary, areas) == [status |-> 200, summary |-> summary, improvementAreas |-> areas]

\* feedback.js:241-247: the catch around callGroqInsights
GroqCaught(out) ==
    IF out.thrown
    THEN Insight(Str(<<"Groq error: ">> \o
                     (IF out.message # <<>> THEN out.message ELSE <<"unknown error">>)),
                 <<>>)
    ELSE out

\* feedback.js:255-271: the placeholder fill and the response; calling trim on
\* a summary that is truthy and no string throws, and the outer catch answers
\* 500 "Server error".
GroqFill(ai) ==
    IF Truthy(ai.summary) /\ ai.summary.t # "string" THEN ServerError
    ELSE Success(
            IF ~Truthy(ai.summary) \/ trim(ai.summary.s) = <<>>
            THEN Str(<<"AI did not return a summary. Try adding more detailed feedback.">>)
            ELSE ai.summary,
            IF Len(ai.improvementAreas) = 0
            THEN << <<"AI did not return improvement areas. Try adding more detailed feedback.">> >>
            ELSE ai.improvementAreas)

\* feedback.js:249-252
GroqNoFeedback == Insight(Str(<<"No feedback yet to analyze.">>), <<>>)

\* feedback.js:630-633
GeminiNoFeedback ==
    Insight(Str(<<"Not enough data for a summary.">>), << <<"Not enough data for analysis.">> >>)

\* feedback.js:638-644: the catch around callGeminiInsights
GeminiCaught(out) ==
    IF out.thrown
    THEN Insight(Str(<<"Gemini could not generate a summary.">>),
                 << <<"Gemini error: ">> \o
                    (IF out.message # <<>> THEN out.message ELSE <<"Unknown error">>) >>)
    ELSE out

\* The handlers without their test of feedbackTexts.length.
CallsInsightsAlways(nTexts) == nTexts >= 0

\* feedback.js:235 and 635: whether the synthesizer is called at all
CallsInsights(nTexts) == nTexts >= 1

\* The insight section for `nTexts` texts, `reply` being the outcome of the
\* fetch when one is made.
InsightSection(variant_, key, nTexts, reply) ==
    IF variant_ = "groq"
    THEN GroqFill(IF CallsInsights(nTexts) THEN GroqCaught(callGroqInsights(key, reply))
                  ELSE GroqNoFeedback)
    ELSE LET ai == IF CallsInsights(nTexts)
                   THEN GeminiCaught(callGeminiInsights(key, nTexts, reply))
                   ELSE GeminiNoFeedback
         IN  Success(ai.summary, ai.improvementAreas)

\* Whether the request reaches fetch
Fetches(variant_, key, nTexts) ==
    /\ CallsInsights(nTexts)
    /\ IF variant_ = "groq" THEN GroqFetches(key) ELSE GeminiFetches(key, nTexts)

(***************************************************************************)
(* POST /api/feedback (feedback.js:132-189, 484-540)                       *)
(***************************************************************************)
Submitters == Students
\* req.body.category of the submissions made
SubmitCategories == {"teacher", "hostel", "campus"}

\* What the python process may print during a submission.
SubmitChunks ==
    { positive \o <<"\n">>,
      <<"N", "E", "G", "A", "T", "I", "V", "E", "\n">>,
      <<"g", "o", "o", "d">> }

\* createdAt of a new record is later than that of every stored one.
TimeSteps == {1}

SubIdle ==
    [pc |-> "idle", userId |-> "s0", category |-> "hostel", teacherId |-> "none",
     learningType |-> "none", status |-> 0]

\* The response is sent; of the request only the category and the teacherId
\* of its body are kept, the handler's locals are gone.
SubDone(s, status) ==
    [SubIdle EXCEPT !.pc = "done", !.status = status,
                    !.category = s.category, !.teacherId = s.teacherId]

\* A handler without the attendance criterion.
SubmitStartAnyAttendance ==
    /\ sub.pc \in {"idle", "done"}
    /\ started.submits < MaxSubmits
    /\ started' = [started EXCEPT !.submits = @ + 1]
    /\ \E u \in Submitters, c \in SubmitCategories, t \in TeacherRefs :
         LET req == [SubIdle EXCEPT !.userId = u, !.category = c, !.teacherId = t]
         IN  sub' =
               IF t = "bad" THEN SubDone(req, 400)
               ELSE IF ~users[u].exists THEN SubDone(req, 404)
               ELSE [req EXCEPT !.pc = "saveStudent",
                                !.learningType =
                                    getLearningType(users[u].attendance, users[u].marks)]
    /\ UNCHANGED <<variant, apiKey, users, feedbacks, now, py, st, tst, pace>>

\* feedback.js:134-156: the checks, the learning type and student.save()
SubmitStart ==
    /\ sub.pc \in {"idle", "done"}
    /\ started.submits < MaxSubmits
    /\ started' = [started EXCEPT !.submits = @ + 1]
    /\ \E u \in Submitters, c \in SubmitCategories, t \in TeacherRefs :
         LET req == [SubIdle EXCEPT !.userId = u, !.category = c, !.teacherId = t]
         IN  sub' =
               IF t = "bad" THEN SubDone(req, 400)
               ELSE IF ~users[u].exists THEN SubDone(req, 404)
               ELSE IF RoleOf(u) = "student" /\ users[u].attendance < MinAttendance
               THEN SubDone(req, 403)
               ELSE [req EXCEPT !.pc = "saveStudent",
                                !.learningType =
                                    getLearningType(users[u].attendance, users[u].marks)]
    /\ UNCHANGED <<variant, apiKey, users, feedbacks, now, py, st, tst, pace>>

\* feedback.js:155-166: the user schema has no learningType path, so the
\* save stores nothing; then getSentiment spawns the python process.
SubmitSpawn ==
    /\ sub.pc = "saveStudent"
    /\ sub' = [sub EXCEPT !.pc = "sentiment"]
    /\ py' = Spawned
    /\ UNCHANGED <<variant, apiKey, users, feedbacks, now, started, st, tst, pace>>

SubmitPyData ==
    /\ sub.pc = "sentiment"
    /\ PyData(SubmitChunks, SubmitMaxChunks)
    /\ UNCHANGED <<variant, apiKey, users, feedbacks, now, started, sub, st, tst, pace>>

SubmitPyClose ==
    /\ sub.pc = "sentiment"
    /\ PyClose
    /\ UNCHANGED <<variant, apiKey, users, feedbacks, now, started, sub, st, tst, pace>>

SubmitPyError ==
    /\ sub.pc = "sentiment"
    /\ PyError
    /\ UNCHANGED <<variant, apiKey, users, feedbacks, now, started, sub, st, tst, pace>>

\* A save that puts the request's teacherId on the record whatever the
\* category.
SubmitStoreKeepsRef ==
    /\ sub.pc = "sentiment"
    /\ py.promise # "pending"
    /\ \E step \in TimeSteps :
         LET f == Feedback(sub.userId, sub.category, sub.teacherId,
                           py.value, sub.learningType, now + step)
         IN  IF py.promise = "resolved" /\ FeedbackValid(f)
             THEN /\ feedbacks' = Append(feedbacks, f)
                  /\ now' = now + step
                  /\ sub' = SubDone(sub, 201)
             ELSE /\ sub' = SubDone(sub, 500)
                  /\ UNCHANGED <<feedbacks, now>>
    /\ py' = PyIdle
    /\ UNCHANGED <<variant, apiKey, users, started, st, tst, pace>>

\* feedback.js:168-184: the record is built, validated and saved
SubmitStore ==
    /\ sub.pc = "sentiment"
    /\ py.promise # "pending"
    /\ \E step \in TimeSteps :
         LET f == Feedback(sub.userId, sub.category,
                           IF sub.category = "teacher" THEN sub.teacherId ELSE "none",
                           py.value, sub.learningType, now + step)
         IN  IF py.promise = "resolved" /\ FeedbackValid(f)
             THEN /\ feedbacks' = Append(feedbacks, f)
                  /\ now' = now + step
                  /\ sub' = SubDone(sub, 201)
             ELSE /\ sub' = SubDone(sub, 500)
                  /\ UNCHANGED <<feedbacks, now>>
    /\ py' = PyIdle
    /\ UNCHANGED <<variant, apiKey, users, started, st, tst, pace>>

(***************************************************************************)
(* PUT /users/:id (unnamed/part_001:135-159)                               *)
(***************************************************************************)
\* req.body of an update: attendance alone, or attendance and marks.
UpdateInputs ==
    { [setAttendance |-> TRUE, attendance |-> 70, setMarks |-> FALSE, marks |-> 0],
      [setAttendance |-> TRUE, attendance |-> 85, setMarks |-> TRUE, marks |-> 75] }

\* An update that also recomputes the learning pace on the records the
\* updated user submitted.
AdminUpdateRelabels ==
    /\ started.updates < MaxUpdates
    /\ started' = [started EXCEPT !.updates = @ + 1]
    /\ \E u \in {"s1"}, body \in UpdateInputs :
         /\ users' = [users EXCEPT
                        ![u].attendance = IF body.setAttendance THEN body.attendance ELSE @,
                        ![u].marks = IF body.setMarks THEN body.marks ELSE @]
         /\ feedbacks' =
               [i \in 1..Len(feedbacks) |->
                   IF feedbacks[i].userId = u
                   THEN [feedbacks[i] EXCEPT
                            !.learningType =
                                getLearningType(users'[u].attendance, users'[u].marks)]
                   ELSE feedbacks[i]]
    /\ UNCHANGED <<variant, apiKey, now, sub, py, st, tst, pace>>

AdminUpdateUser ==
    /\ started.updates < MaxUpdates
    /\ started' = [started EXCEPT !.updates = @ + 1]
    /\ \E u \in {"s1"}, body \in UpdateInputs :
         users' = [users EXCEPT
                     ![u].attendance = IF body.setAttendance THEN body.attendance ELSE @,
                     ![u].marks = IF body.setMarks THEN body.marks ELSE @]
    /\ UNCHANGED <<variant, apiKey, feedbacks, now, sub, py, st, tst, pace>>

(***************************************************************************)
(* GET /api/feedback/teacher/stats (feedback.js:194-276, 545-662)          *)
(***************************************************************************)
Requesters == Teachers \cup {"s1"}
LearningTypeFilters == {"none", "Fast Learner", "Slow Learner"}

StIdle ==
    [pc |-> "idle", user |-> "t1", learningType |-> "none",
     total |-> 0, positive |-> 0, neutral |-> 0, negative |-> 0,
     texts |-> <<>>, recent |-> <<>>, trend |-> <<>>,
     netCalls |-> 0, reply |-> NoReply, dbFailed |-> FALSE,
     status |-> 0, summary |-> Undefined, improvementAreas |-> <<>>]

\* res.json / res.status(..).json
Respond(s, section) ==
    [s EXCEPT !.pc = "done", !.status = section.status,
              !.summary = section.summary,
              !.improvementAreas = section.improvementAreas]

\* From the texts on: either the fetch is issued, or the response is sent.
Synthesize(s) ==
    IF Fetches(variant, apiKey, Len(s.texts))
    THEN [s EXCEPT !.pc = "fetch", !.netCalls = s.netCalls + 1]
    ELSE Respond(s, InsightSection(variant, apiKey, Len(s.texts), NoReply))

\* The role check (feedback.js:196-198, 547-549)
StatsStart ==
    /\ st.pc \in {"idle", "done"}
    /\ started.stats < MaxStats
    /\ started' = [started EXCEPT !.stats = @ + 1]
    /\ \E u \in Requesters, lt \in LearningTypeFilters :
         /\ variant = "groq" => lt = "none"        \* the Groq handler reads no query
         /\ st' = IF RoleOf(u) # "teacher"
                  THEN [StIdle EXCEPT !.pc = "done", !.user = u, !.status = 403]
                  ELSE [StIdle EXCEPT !.pc = "query", !.user = u, !.learningType = lt]
    /\ UNCHANGED <<variant, apiKey, users, feedbacks, now, sub, py, tst, pace>>

\* Groq: Feedback.find(..).sort(..), the counts and the texts
\* (feedback.js:202-253); Gemini: the statsPipeline aggregate (569-584).
StatsQuery ==
    /\ st.pc = "query"
    /\ LET ids == Found(feedbacks, variant, st.user, st.learningType)
           counted ==
               [st EXCEPT !.total = Cardinality(ids),
                          !.positive = sentimentCount(feedbacks, ids, positive),
                          !.neutral = sentimentCount(feedbacks, ids, neutral),
                          !.negative = sentimentCount(feedbacks, ids, negative)]
       IN  st' = IF variant = "groq"
                 THEN Synthesize([counted EXCEPT
                          !.texts = SortCreatedDesc(feedbacks, ids),
                          !.recent = Limit(SortCreatedDesc(feedbacks, ids), RecentLimit)])
                 ELSE [counted EXCEPT !.pc = "recent", !.texts = Ascending(ids)]
    /\ UNCHANGED <<variant, apiKey, users, feedbacks, now, started, sub, py, tst, pace>>

\* Gemini: Feedback.find(matchQuery).sort(..).limit(5) (feedback.js:587-590)
StatsRecent ==
    /\ st.pc = "recent"
    /\ LET ids == Found(feedbacks, variant, st.user, st.learningType)
       IN  st' = [st EXCEPT !.pc = "trend",
                            !.recent = Limit(SortCreatedDesc(feedbacks, ids), RecentLimit)]
    /\ UNCHANGED <<variant, apiKey, users, feedbacks, now, started, sub, py, tst, pace>>

\* Gemini: the monthlyTrendPipeline aggregate, then the texts and the call of
\* callGeminiInsights (feedback.js:593-645)
StatsTrend ==
    /\ st.pc = "trend"
    /\ LET ids == Found(feedbacks, variant, st.user, st.learningType)
       IN  st' = Synthesize([st EXCEPT !.trend = monthlyTrendPipeline(feedbacks, ids)])
    /\ UNCHANGED <<variant, apiKey, users, feedbacks, now, started, sub, py, tst, pace>>

\* A query of the store fails: the outer catch answers 500.
StatsDbFail ==
    /\ st.pc \in {"query", "recent", "trend"}
    /\ st' = [st EXCEPT !.pc = "done", !.status = 500, !.dbFailed = TRUE]
    /\ UNCHANGED <<variant, apiKey, users, feedbacks, now, started, sub, py, tst, pace>>

\* The fetch settles (feedback.js:58-103, 241-271; 385-452, 638-656)
StatsReply(replies) ==
    /\ st.pc = "fetch"
    /\ \E reply \in replies :
         st' = Respond([st EXCEPT !.reply = reply],
                       InsightSection(variant, apiKey, Len(st.texts), reply))
    /\ UNCHANGED <<variant, apiKey, users, feedbacks, now, started, sub, py, tst, pace>>

(***************************************************************************)
(* Specifications                                                          *)
(***************************************************************************)
\* The store, the configuration and the requests before any request is made.
InitRest ==
    /\ variant \in {"groq", "gemini"}
    /\ apiKey \in BOOLEAN
    /\ users = InitUsers
    /\ feedbacks = <<>>
    /\ now = 0
    /\ started = [submits |-> 0, stats |-> 0, updates |-> 0]
    /\ sub = SubIdle
    /\ st = StIdle

Init ==
    /\ InitRest
    /\ py = PyIdle
    /\ tst = TstIdle
    /\ pace = PaceIdle

\* In the system's specification the service answers with one of MainTexts.
MainTexts == {ObjGood, PlainProse}
MainReplies == Replies(MainTexts)
SysStatsReply == StatsReply(MainReplies)

Next ==
    \/ SubmitStart
    \/ SubmitSpawn
    \/ SubmitPyData
    \/ SubmitPyClose
    \/ SubmitPyError
    \/ SubmitStore
    \/ AdminUpdateUser
    \/ StatsStart
    \/ StatsQuery
    \/ StatsRecent
    \/ StatsTrend
    \/ StatsDbFail
    \/ SysStatsReply

Spec == Init /\ [][Next]_vars

\* The system with the progress the event loop and the runtime guarantee:
\* a handler whose awaited promise has settled runs on, a query of the store
\* is answered or fails, and fetch settles with a response or a rejection.
\* Nothing makes the python process write or exit (SubmitPyData,
\* SubmitPyClose and SubmitPyError are the child's doing), and nobody has to
\* send a request.
Progress ==
    /\ WF_vars(SubmitSpawn)
    /\ WF_vars(SubmitStore)
    /\ WF_vars(StatsQuery)
    /\ WF_vars(StatsRecent)
    /\ WF_vars(StatsTrend)
    /\ WF_vars(SysStatsReply)

SpecLive == Init /\ [][Next]_vars /\ Progress

\* The submissions and the admin's updates alone.
NextSubmit ==
    \/ SubmitStart
    \/ SubmitSpawn
    \/ SubmitPyData
    \/ SubmitPyClose
    \/ SubmitPyError
    \/ SubmitStore
    \/ AdminUpdateUser

SpecSubmit == Init /\ [][NextSubmit]_vars

\* getSentiment alone, called by GET /test-sentiment.
InitSentiment ==
    /\ InitRest
    /\ py = PyIdle
    /\ tst = TstIdle
    /\ pace = PaceIdle

NextSentiment ==
    \/ TestSentimentStart
    \/ TestPyData
    \/ TestPyClose
    \/ TestPyError
    \/ TestPyCloseAfterError
    \/ TestSentimentRespond

SpecSentiment == InitSentiment /\ [][NextSentiment]_vars

\* getLearningType alone, over every attendance and marks the schema admits.
InitPace ==
    /\ InitRest
    /\ py = PyIdle
    /\ tst = TstIdle
    /\ pace \in [attendance : 0..MaxAttendance, marks : 0..MaxMarks, out : {"none"}]

NextPace == Classify

SpecPace == InitPace /\ [][NextPace]_vars

\* The teacher-stats handler alone, over a store that earlier submissions
\* left behind, the service answering with any of Texts.
StoredOne == Feedback("s1", "teacher", "t1", positive, "Slow Learner", 1)
StoredTwo == Feedback("s1", "teacher", "t1", negative, "Slow Learner", 2)
StoredOther == Feedback("s1", "teacher", "t2", neutral, "Slow Learner", 3)
InsightStores ==
    {<<>>, <<StoredOne>>, <<StoredOne, StoredTwo>>, <<StoredOne, StoredTwo, StoredOther>>}

InitInsights ==
    /\ variant \in {"groq", "gemini"}
    /\ apiKey \in BOOLEAN
    /\ users = InitUsers
    /\ feedbacks \in InsightStores
    /\ now = Len(feedbacks)
    /\ started = [submits |-> Len(feedbacks), stats |-> 0, updates |-> 0]
    /\ sub = SubIdle
    /\ st = StIdle
    /\ py = PyIdle
    /\ tst = TstIdle
    /\ pace = PaceIdle

AllReplies == Replies(Texts)
InsStatsReply == StatsReply(AllReplies)

NextInsights ==
    \/ StatsStart
    \/ StatsQuery
    \/ StatsRecent
    \/ StatsTrend
    \/ StatsDbFail
    \/ InsStatsReply

SpecInsights == InitInsights /\ [][NextInsights]_vars

\* The teacher-stats handler alone, over every store of up to MaxStored
\* records that earlier submissions can have left behind.
StoredRecords ==
    {Feedback("s1", "teacher", t, s, lt, 0) :
        t \in Teachers, s \in validSentiments, lt \in {"Fast Learner", "Slow Learner"}}
    \cup {Feedback("s1", "hostel", "none", neutral, "Slow Learner", 0)}

\* createdAt grows with the order of insertion.
Stamped(records) == [i \in 1..Len(records) |-> [records[i] EXCEPT !.createdAt = i]]

CountStores == UNION {{Stamped(r) : r \in [1..n -> StoredRecords]} : n \in 0..MaxStored}

InitCounts ==
    /\ variant \in {"groq", "gemini"}
    /\ apiKey \in BOOLEAN
    /\ users = InitUsers
    /\ feedbacks \in CountStores
    /\ now = Len(feedbacks)
    /\ started = [submits |-> Len(feedbacks), stats |-> 0, updates |-> 0]
    /\ sub = SubIdle
    /\ st = StIdle
    /\ py = PyIdle
    /\ tst = TstIdle
    /\ pace = PaceIdle

NextCounts ==
    \/ StatsStart
    \/ StatsQuery
    \/ StatsRecent
    \/ StatsTrend
    \/ StatsDbFail
    \/ SysStatsReply

SpecCounts == InitCounts /\ [][NextCounts]_vars

\* The teacher-stats handler alone, over every store of up to MaxListed
\* records of two teachers and both learning paces: more records than the
\* recent list holds.
ListedRecords ==
    { Feedback("s1", "teacher", "t1", positive, "Fast Learner", 0),
      Feedback("s1", "teacher", "t1", negative, "Slow Learner", 0),
      Feedback("s1", "teacher", "t2", neutral, "Slow Learner", 0) }

ListedStores == UNION {{Stamped(r) : r \in [1..n -> ListedRecords]} : n \in 0..MaxListed}

InitRecent ==
    /\ variant \in {"groq", "gemini"}
    /\ apiKey \in BOOLEAN
    /\ users = InitUsers
    /\ feedbacks \in ListedStores
    /\ now = Len(feedbacks)
    /\ started = [submits |-> Len(feedbacks), stats |-> 0, updates |-> 0]
    /\ sub = SubIdle
    /\ st = StIdle
    /\ py = PyIdle
    /\ tst = TstIdle
    /\ pace = PaceIdle

NextRecent ==
    \/ StatsStart
    \/ StatsQuery
    \/ StatsRecent
    \/ StatsTrend
    \/ StatsDbFail
    \/ SysStatsReply

SpecRecent == InitRecent /\ [][NextRecent]_vars

\* The teacher-stats handler alone, over stores of up to MaxTrended records
\* created in the first two months of two successive years.
TrendTimes ==
    {0, 1, TicksPerMonth, 12 * TicksPerMonth, 13 * TicksPerMonth}

TrendRecords ==
    {Feedback("s1", "teacher", t, neutral, "Slow Learner", at) :
        t \in Teachers, at \in TrendTimes}

\* createdAt never decreases along the order of insertion.
TrendStores ==
    UNION {{r \in [1..n -> TrendRecords] :
               \A i \in 1..(n - 1) : r[i].createdAt <= r[i + 1].createdAt} :
           n \in 0..MaxTrended}

InitTrend ==
    /\ variant \in {"groq", "gemini"}
    /\ apiKey \in BOOLEAN
    /\ users = InitUsers
    /\ feedbacks \in TrendStores
    /\ now = IF feedbacks = <<>> THEN 0 ELSE feedbacks[Len(feedbacks)].createdAt
    /\ started = [submits |-> Len(feedbacks), stats |-> 0, updates |-> 0]
    /\ sub = SubIdle
    /\ st = StIdle
    /\ py = PyIdle
    /\ tst = TstIdle
    /\ pace = PaceIdle

NextTrend ==
    \/ StatsStart
    \/ StatsQuery
    \/ StatsRecent
    \/ StatsTrend
    \/ StatsDbFail
    \/ SysStatsReply

SpecTrend == InitTrend /\ [][NextTrend]_vars

(***************************************************************************)
(* Vocabulary of the claims about the teacher-stats response               *)
(***************************************************************************)
\* The request got past the role check and no query of the store failed.
Answered == st.pc = "done" /\ RoleOf(st.user) = "teacher" /\ ~st.dbFailed

\* The stored records of the request's scope, counted one by one.
RECURSIVE ScopeSize(_, _, _)
ScopeSize(store, teacherId, learningType) ==
    IF store = <<>> THEN 0
    ELSE ScopeSize(Tail(store), teacherId, learningType)
         + (IF /\ Head(store).category = "teacher"
               /\ Head(store).teacherId = teacherId
               /\ learningType \in {"none", Head(store).learningType}
            THEN 1 ELSE 0)

\* Whether a stored record belongs to the scope of a request.
InScope(f, teacherId, learningType) ==
    /\ f.category = "teacher"
    /\ f.teacherId = teacherId
    /\ learningType \in {"none", f.learningType}

NonBlankString(v) == v.t = "string" /\ \E i \in 1..Len(v.s) : ~IsSpace(v.s[i])

\* The insight section the variant answers with when there is no feedback.
NotEnoughData == InsightSection(variant, apiKey, 0, NoReply)

(***************************************************************************)
(* C1                                                                      *)
(***************************************************************************)
\* C1: a teacher-stats request whose scoped records can be read always ends
\* in a success response that carries the real counts, whatever the
\* generation service does; no behaviour of the service alone makes it a
\* "Server error".
C1_StatsSurvivesService ==
    Answered =>
        /\ st.status = 200
        /\ st.total = ScopeSize(feedbacks, st.user, st.learningType)
        /\ st.positive + st.neutral + st.negative = st.total

(***************************************************************************)
(* C2                                                                      *)
(***************************************************************************)
\* C2: in every successful teacher-stats response summary is a non-blank
\* string and improvementAreas has at least one entry.
C2_InsightNeverEmpty ==
    st.pc = "done" /\ st.status = 200 =>
        /\ NonBlankString(st.summary)
        /\ Len(st.improvementAreas) >= 1

(***************************************************************************)
(* C6                                                                      *)
(***************************************************************************)
\* C6: with zero feedback texts the response carries the fixed "not enough
\* data" placeholder and the generation service is not called, whether a
\* credential is configured or not.
C6_NoTextsNoCall ==
    /\ st.pc = "fetch" => Len(st.texts) >= 1
    /\ Answered /\ st.texts = <<>> =>
         /\ st.netCalls = 0
         /\ st.reply = NoReply
         /\ st.status = 200
         /\ variant = "groq" =>
              /\ st.summary = Str(<<"No feedback yet to analyze.">>)
              /\ Len(st.improvementAreas) = 1
         /\ variant = "gemini" =>
              /\ st.summary = Str(<<"Not enough data for a summary.">>)
              /\ st.improvementAreas = << <<"Not enough data for analysis.">> >>

\* A request of a teacher without feedback was answered while a credential
\* is configured.
C6_Witness ==
    Answered /\ st.texts = <<>> /\ apiKey /\ st.status = 200 /\ st.user = "t2"

(***************************************************************************)
(* C7                                                                      *)
(***************************************************************************)
\* C7 (as stated): with at least one text and no credential, no network call
\* is made and the response carries a configuration-error placeholder whose
\* summary and improvement areas both differ from those of the "not enough
\* data" placeholder.
C7_ConfigPlaceholderDistinct ==
    Answered /\ Len(st.texts) >= 1 /\ ~apiKey =>
        /\ st.netCalls = 0
        /\ st.status = 200
        /\ st.summary # NotEnoughData.summary
        /\ st.improvementAreas # NotEnoughData.improvementAreas

\* C7 (amended): with at least one text and no credential, no network call
\* is made and the response carries a configuration-error placeholder whose
\* summary names the missing key and differs from the summary of the "not
\* enough data" placeholder; its improvement areas differ from those of
\* that placeholder in the Gemini variant only.
C7_ConfigPlaceholder ==
    Answered /\ Len(st.texts) >= 1 /\ ~apiKey =>
        /\ st.netCalls = 0
        /\ st.status = 200
        /\ st.summary # NotEnoughData.summary
        /\ st.summary \in
             { Str(<<"Groq error: ", "Groq API key missing on server">>),
               Str(<<"Gemini API key is missing on the server; please set GEMINI_API_KEY.">>) }
        /\ Len(st.improvementAreas) = 1
        /\ variant = "gemini" => st.improvementAreas # NotEnoughData.improvementAreas

\* A request of a teacher with two records was answered while no credential
\* is configured.
C7_Witness ==
    Answered /\ Len(st.texts) = 2 /\ ~apiKey /\ st.status = 200 /\ variant = "groq"

(***************************************************************************)
(* C8                                                                      *)
(***************************************************************************)
\* The position of the brace that closes the one open at depth `depth`, from
\* position i on; 0 if none.
RECURSIVE Closing(_, _, _)
Closing(s, i, depth) ==
    IF i > Len(s) THEN 0
    ELSE IF s[i] = "{" THEN Closing(s, i + 1, depth + 1)
    ELSE IF s[i] = "}" THEN (IF depth = 1 THEN i ELSE Closing(s, i + 1, depth - 1))
    ELSE Closing(s, i + 1, depth)

\* The position of the brace that matches the first opening brace, 0 if none.
ClosingOfFirst(s) ==
    LET opens == {i \in 1..Len(s) : s[i] = "{"}
        first == CHOOSE i \in opens : \A j \in opens : i <= j
    IN  IF opens = {} THEN 0 ELSE Closing(s, first + 1, 1)

\* The first substring bounded by an opening brace and its matching closing
\* brace; <<>> if there is none.
FirstBalanced(s) ==
    LET opens == {i \in 1..Len(s) : s[i] = "{"}
        first == CHOOSE i \in opens : \A j \in opens : i <= j
    IN  IF ClosingOfFirst(s) = 0 THEN <<>>
        ELSE SubSeq(s, first, ClosingOfFirst(s))

\* The reply is text that is no JSON itself and wraps an object whose
\* summary is a non-blank string and whose improvementAreas is an array
\* with a usable entry.
WrapsObject(text) ==
    /\ ~JSONparse(text).ok
    /\ FirstBalanced(text) # <<>>
    /\ JSONparse(FirstBalanced(text)).ok
    /\ LET o == JSONparse(FirstBalanced(text)).v
       IN  /\ NonBlankString(Prop(o, <<"summary">>))
           /\ Cleaned(ArrayOrEmpty(Prop(o, <<"improvementAreas">>))) # <<>>

Elements(seq) == {seq[i] : i \in 1..Len(seq)}

\* C8: when the service's text is no parseable object itself but wraps one
\* in prose, the response carries that object's summary and improvement
\* areas, whatever the prose, prose with further braces after the object
\* included.
C8_EmbeddedObjectExtracted ==
    Answered /\ st.reply.kind = "ok" /\ WrapsObject(st.reply.text) =>
        LET o == JSONparse(FirstBalanced(st.reply.text)).v
        IN  /\ st.status = 200
            /\ st.summary.t = "string"
            /\ trim(st.summary.s) = trim(Prop(o, <<"summary">>).s)
            /\ Elements(st.improvementAreas) =
                 Elements(Cleaned(Prop(o, <<"improvementAreas">>).items))

(***************************************************************************)
(* C9                                                                      *)
(***************************************************************************)
\* The reply is non-blank text in which nothing parses: neither the text nor
\* a brace-delimited part of it.
PlainText(text) ==
    /\ trim(text) # <<>>
    /\ ~JSONparse(text).ok
    /\ \A i, j \in 1..Len(text) :
         i < j /\ text[i] = "{" /\ text[j] = "}" => ~JSONparse(SubSeq(text, i, j)).ok

\* C9: when the service answers non-empty prose that holds no parseable
\* object, the response's summary is that prose and improvementAreas is a
\* non-empty placeholder list; no error is raised.
C9_ProseBecomesSummary ==
    Answered /\ st.reply.kind = "ok" /\ PlainText(st.reply.text) =>
        /\ st.status = 200
        /\ st.summary.t = "string"
        /\ trim(st.summary.s) = trim(st.reply.text)
        /\ Len(st.improvementAreas) >= 1

(***************************************************************************)
(* C10                                                                     *)
(***************************************************************************)
\* The reference: non-strings dropped, strings trimmed, blanks dropped, then
\* every later copy of an entry removed.
RECURSIVE ReferenceAreas(_, _)
ReferenceAreas(raw, acc) ==
    IF raw = <<>> THEN acc
    ELSE LET v == Head(raw)
             t == IF v.t = "string" THEN trim(v.s) ELSE <<>>
         IN  ReferenceAreas(Tail(raw),
                            IF t = <<>> \/ t \in Elements(acc) THEN acc ELSE Append(acc, t))

\* The object the handler parsed the reply to: the reply itself, or the
\* object it wraps when no brace follows that object.
ParsedAreas(text) ==
    LET direct == JSONparse(text)
        inner == FirstBalanced(text)
        clean == \A i \in 1..Len(text) :
                    text[i] \in {"{", "}"} => i <= ClosingOfFirst(text)
        p == IF direct.ok THEN direct
             ELSE IF inner # <<>> /\ clean THEN JSONparse(inner)
             ELSE ParseFail
    IN  IF p.ok /\ p.v.t = "object" /\ NonBlankString(Prop(p.v, <<"summary">>))
        THEN ReferenceAreas(ArrayOrEmpty(Prop(p.v, <<"improvementAreas">>)), <<>>)
        ELSE <<>>

\* C10: the improvement areas of a parsed response are the reference result
\* (non-strings dropped, trimmed, blanks dropped, duplicates removed keeping
\* the first occurrence and the order); no two returned entries are equal.
C10_AreasSanitized ==
    Answered /\ st.reply.kind = "ok" /\ ParsedAreas(st.reply.text) # <<>>
             /\ st.status = 200 =>
        /\ st.improvementAreas = ParsedAreas(st.reply.text)
        /\ \A i, j \in 1..Len(st.improvementAreas) :
             i # j => st.improvementAreas[i] # st.improvementAreas[j]

(***************************************************************************)
(* C3                                                                      *)
(***************************************************************************)
\* C3: for any stored records and any teacher scope, the teacher-stats
\* response has positive + neutral + negative = totalFeedback = the number of
\* stored records of that scope.
C3_CountsAddUp ==
    Answered /\ st.status = 200 =>
        /\ st.positive + st.neutral + st.negative = st.total
        /\ st.total = ScopeSize(feedbacks, st.user, st.learningType)

\* A response that counts the one positive record of the scope, the store
\* holding a record outside the scope too.
C3_Witness ==
    /\ Answered /\ st.status = 200
    /\ Len(feedbacks) = 2
    /\ st.total = 1 /\ st.positive = 1

(***************************************************************************)
(* C4                                                                      *)
(***************************************************************************)
RECURSIVE Concat(_)
Concat(chunks) ==
    IF chunks = <<>> THEN <<>> ELSE Head(chunks) \o Concat(Tail(chunks))

\* Everything the process wrote to stdout, surrounding white space removed.
Printed(p) == trim(Concat(p.chunks))

\* C4: getSentiment never rejects and resolves to one of the three labels:
\* to neutral when the process failed to start, exited with a non-zero code,
\* printed nothing or printed anything that is not (case-insensitively) one
\* of the labels, and to the lower-cased label otherwise.
C4_Sentiment ==
    py.promise # "pending" =>
        /\ py.promise = "resolved"
        /\ py.value \in validSentiments
        /\ py.value =
             IF py.state = "closed" /\ py.code = 0
                /\ toLowerCase(Printed(py)) \in validSentiments
             THEN toLowerCase(Printed(py))
             ELSE neutral

\* The part of C4 that holds of the code: the promise is never rejected and
\* its value is one of the three labels, neutral unless the process exited
\* with code 0.
SentimentResolvesLabel ==
    py.promise # "pending" =>
        /\ py.promise = "resolved"
        /\ py.value \in validSentiments
        /\ (py.state = "failed" \/ py.code # 0 \/ py.chunks = <<>>
               => py.value = neutral)

(***************************************************************************)
(* C5                                                                      *)
(***************************************************************************)
\* C5: getLearningType returns the fast label if and only if attendance >= 85
\* and marks >= 75, and the slow label for every other pair of 0..100 x 0..100;
\* (85,75) is fast, (84,75) and (85,74) are slow.
C5_LearningType ==
    pace.out # "none" =>
        /\ pace.out \in {"Fast Learner", "Slow Learner"}
        /\ (pace.out = "Fast Learner" <=> (pace.attendance >= 85 /\ pace.marks >= 75))
        /\ (pace.attendance = 85 /\ pace.marks = 75 => pace.out = "Fast Learner")
        /\ (pace.attendance = 84 /\ pace.marks = 75 => pace.out = "Slow Learner")
        /\ (pace.attendance = 85 /\ pace.marks = 74 => pace.out = "Slow Learner")

\* The boundary pair was classified.
C5_Witness ==
    pace = [attendance |-> 85, marks |-> 75, out |-> "Fast Learner"]

(***************************************************************************)
(* C11                                                                     *)
(***************************************************************************)
\* C11: for a scope holding n records, the recent list of the teacher-stats
\* response has exactly min(n, 5) entries, each a different record of the
\* scope, ordered by createdAt descending, and no record of the scope that
\* is left out of the list is newer than a record in the list.
C11_RecentNewestFive ==
    Answered /\ st.status = 200 =>
        LET n == ScopeSize(feedbacks, st.user, st.learningType)
            listed == {st.recent[k] : k \in 1..Len(st.recent)}
        IN  /\ Len(st.recent) = (IF n < 5 THEN n ELSE 5)
            /\ Cardinality(listed) = Len(st.recent)
            /\ \A i \in listed :
                  /\ i \in 1..Len(feedbacks)
                  /\ InScope(feedbacks[i], st.user, st.learningType)
            /\ \A k \in 1..(Len(st.recent) - 1) :
                  feedbacks[st.recent[k]].createdAt >= feedbacks[st.recent[k + 1]].createdAt
            /\ \A j \in (1..Len(feedbacks)) \ listed :
                  InScope(feedbacks[j], st.user, st.learningType) =>
                      \A i \in listed : feedbacks[j].createdAt <= feedbacks[i].createdAt

\* A response over a scope of six records: five are listed, the oldest is
\* left out.
C11_Witness ==
    /\ Answered /\ st.status = 200
    /\ ScopeSize(feedbacks, st.user, st.learningType) = 6
    /\ Len(st.recent) = 5
    /\ \A k \in 1..Len(st.recent) : st.recent[k] # 1

(***************************************************************************)
(* C12                                                                     *)
(***************************************************************************)
\* The records of the request's scope created in month m of any year.
ScopedInMonth(m) ==
    {i \in 1..Len(feedbacks) :
        /\ InScope(feedbacks[i], st.user, st.learningType)
        /\ MonthOf(feedbacks[i].createdAt) = m}

MonthNumber(name) == CHOOSE m \in 1..12 : monthsInYear[m] = name

\* C12: the monthlyTrend of a teacher-stats response has exactly one entry
\* per month of the year in which the scope has a record, whatever the year;
\* each entry's count is the number of records of the scope in that month
\* and is never 0; the entries are in ascending order of month number.
C12_MonthlyTrend ==
    Answered /\ st.status = 200 /\ variant = "gemini" =>
        /\ \A k \in 1..Len(st.trend) :
              /\ \E m \in 1..12 : st.trend[k].month = monthsInYear[m]
              /\ st.trend[k].count = Cardinality(ScopedInMonth(MonthNumber(st.trend[k].month)))
              /\ st.trend[k].count # 0
        /\ \A m \in 1..12 :
              Cardinality({k \in 1..Len(st.trend) : st.trend[k].month = monthsInYear[m]})
                  = (IF ScopedInMonth(m) # {} THEN 1 ELSE 0)
        /\ \A k \in 1..(Len(st.trend) - 1) :
              MonthNumber(st.trend[k].month) < MonthNumber(st.trend[k + 1].month)

\* A response whose January bucket counts two records of different years,
\* followed by a February bucket.
C12_Witness ==
    /\ Answered /\ st.status = 200 /\ variant = "gemini"
    /\ st.trend = << [month |-> "Jan", count |-> 2], [month |-> "Feb", count |-> 1] >>
    /\ \E i, j \in 1..Len(feedbacks) :
          /\ feedbacks[i].createdAt < TicksPerMonth
          /\ feedbacks[j].createdAt = 12 * TicksPerMonth
          /\ feedbacks[i].teacherId = st.user /\ feedbacks[j].teacherId = st.user

(***************************************************************************)
(* C13                                                                     *)
(***************************************************************************)
\* C13: a record is stored with the sentiment getSentiment resolved to and
\* the learning pace getLearningType returned during its submission, and no
\* later step (a submission, an admin update of a user, a stats request)
\* changes the labels of a stored record or removes it.
C13_LabelsKept ==
    [][ /\ Len(feedbacks') >= Len(feedbacks)
        /\ \A i \in 1..Len(feedbacks) :
              /\ feedbacks'[i].sentiment = feedbacks[i].sentiment
              /\ feedbacks'[i].learningType = feedbacks[i].learningType
        /\ Len(feedbacks') > Len(feedbacks) =>
              /\ Len(feedbacks') = Len(feedbacks) + 1
              /\ py.promise = "resolved"
              /\ feedbacks'[Len(feedbacks')].sentiment = py.value
              /\ feedbacks'[Len(feedbacks')].learningType = sub.learningType
              /\ sub.learningType \in {"Fast Learner", "Slow Learner"}
      ]_vars

\* A slow learner's record is still slow after the admin raised the
\* submitter's attendance and marks, a second submission of the same user
\* was stored as fast, and a stats request was answered.
C13_Witness ==
    /\ Len(feedbacks) = 2
    /\ feedbacks[1].userId = "s1" /\ feedbacks[2].userId = "s1"
    /\ feedbacks[1].learningType = "Slow Learner"
    /\ feedbacks[2].learningType = "Fast Learner"
    /\ feedbacks[1].sentiment # feedbacks[2].sentiment
    /\ getLearningType(users["s1"].attendance, users["s1"].marks) = "Fast Learner"
    /\ st.pc = "done" /\ st.status = 200

(***************************************************************************)
(* C14                                                                     *)
(***************************************************************************)
\* C14: every stored record has a teacher reference if and only if its
\* category is teacher; a teacher-category submission without a teacher
\* reference is not stored, and a submission of another category is stored
\* without the teacher reference its request supplied.
C14_TeacherRefIffTeacher ==
    [][ /\ \A i \in 1..Len(feedbacks') :
              feedbacks'[i].teacherId # "none" <=> feedbacks'[i].category = "teacher"
        /\ Len(feedbacks') > Len(feedbacks) =>
              LET f == feedbacks'[Len(feedbacks')]
              IN  /\ f.category = sub.category
                  /\ sub.category = "teacher" =>
                        sub.teacherId # "none" /\ f.teacherId = sub.teacherId
                  /\ sub.category # "teacher" => f.teacherId = "none"
      ]_vars

\* A campus submission that named teacher t1 was stored without the
\* reference, after a teacher submission that was stored with it.
C14_Witness ==
    /\ sub.pc = "done" /\ sub.status = 201
    /\ sub.category = "campus" /\ sub.teacherId = "t1"
    /\ Len(feedbacks) = 2
    /\ feedbacks[1].category = "teacher" /\ feedbacks[1].teacherId = "t1"
    /\ feedbacks[2].category = "campus" /\ feedbacks[2].teacherId = "none"

\* A teacher submission without a reference was answered 500 and nothing
\* was stored.
C14_RejectedWithoutRef ==
    /\ sub.pc = "done" /\ sub.status = 500
    /\ sub.category = "teacher" /\ sub.teacherId = "none"
    /\ feedbacks = <<>> /\ started.submits = 1

(***************************************************************************)
(* C15                                                                     *)
(***************************************************************************)
\* The stored records of category teacher that refer to the requesting
\* teacher.
OwnRecords ==
    {i \in 1..Len(feedbacks) :
        feedbacks[i].category = "teacher" /\ feedbacks[i].teacherId = st.user}

RECURSIVE TrendTotal(_)
TrendTotal(trend) ==
    IF trend = <<>> THEN 0 ELSE Head(trend).count + TrendTotal(Tail(trend))

\* C15: the counts, the recent records, the monthly trend and the texts
\* sent to the generation service come from the teacher-category records of
\* the requesting teacher only: a record of another teacher or of another
\* category contributes to none of them; without a learning-pace filter
\* every record of the scope is counted and its text is sent.
C15_ScopeIsolation ==
    Answered /\ st.status = 200 =>
        LET sent == {st.texts[k] : k \in 1..Len(st.texts)}
            listed == {st.recent[k] : k \in 1..Len(st.recent)}
            own(label) == Cardinality({i \in OwnRecords : feedbacks[i].sentiment = label})
        IN  /\ sent \subseteq OwnRecords
            /\ listed \subseteq OwnRecords
            /\ st.total = Cardinality(sent)
            /\ st.positive <= own(positive)
            /\ st.neutral <= own(neutral)
            /\ st.negative <= own(negative)
            /\ TrendTotal(st.trend) <= Cardinality(OwnRecords)
            /\ variant = "gemini" => TrendTotal(st.trend) = st.total
            /\ st.learningType = "none" =>
                  /\ sent = OwnRecords
                  /\ st.total = Cardinality(OwnRecords)
                  /\ st.positive = own(positive)
                  /\ st.neutral = own(neutral)
                  /\ st.negative = own(negative)

\* A response without a filter over a store that holds a record of the
\* requesting teacher and a record of the other teacher with the same
\* sentiment: one record counted, one text sent.
C15_Witness ==
    /\ Answered /\ st.status = 200 /\ st.learningType = "none"
    /\ Len(feedbacks) = 2
    /\ feedbacks[1].teacherId = st.user
    /\ feedbacks[2].category = "teacher" /\ feedbacks[2].teacherId # st.user
    /\ feedbacks[1].sentiment = negative /\ feedbacks[2].sentiment = negative
    /\ st.total = 1 /\ st.negative = 1 /\ st.texts = <<1>> /\ st.recent = <<1>>

\* The same with a hostel record beside the teacher's own.
C15_WitnessHostel ==
    /\ Answered /\ st.status = 200 /\ st.learningType = "none"
    /\ Len(feedbacks) = 2
    /\ feedbacks[1].category = "hostel"
    /\ feedbacks[2].teacherId = st.user
    /\ st.total = 1 /\ st.texts = <<2>>

(***************************************************************************)
(* C16                                                                     *)
(***************************************************************************)
\* C16: every feedback submission and every stats request is eventually
\* answered, also when the python process never exits or the generation
\* service never answers: a request that is being handled leads to its
\* response.
C16_AlwaysAnswered ==
    /\ (sub.pc \in {"saveStudent", "sentiment"}) ~> (sub.pc = "done")
    /\ (st.pc \in {"query", "recent", "trend", "fetch"}) ~> (st.pc = "done")

\* The part of C16 that holds once fetch is taken to settle: a stats request
\* that is being handled leads to its response.
StatsAnswered ==
    (st.pc \in {"query", "recent", "trend", "fetch"}) ~> (st.pc = "done")

(***************************************************************************)
(* C17                                                                     *)
(***************************************************************************)
\* C17: every teacher-stats response is computed from one snapshot of the
\* scoped records, also when submissions are stored while the request is
\* handled: the monthlyTrend counts sum to totalFeedback, the recent list
\* has min(totalFeedback, 5) entries and every record of the recent list is
\* among the records counted in totalFeedback.
C17_SingleSnapshot ==
    Answered /\ st.status = 200 =>
        LET counted == {st.texts[k] : k \in 1..Len(st.texts)}
            listed == {st.recent[k] : k \in 1..Len(st.recent)}
        IN  /\ variant = "gemini" => TrendTotal(st.trend) = st.total
            /\ Len(st.recent) = (IF st.total < RecentLimit THEN st.total ELSE RecentLimit)
            /\ listed \subseteq counted

(***************************************************************************)
(* C18                                                                     *)
(***************************************************************************)
\* C18: a submission whose teacher reference is malformed, whose submitter
\* does not exist or whose submitter is a student with an attendance below
\* 75 is answered with an error (400, 404, 403) in the step that receives
\* it; that step leaves the stored records, the users and the python
\* process as they were. Only a request that passed the three checks goes
\* on to spawn the python process, and only such a request stores a record.
C18_RejectedLeavesNoTrace ==
    [][ /\ started'.submits > started.submits =>
              /\ feedbacks' = feedbacks /\ users' = users /\ py' = py
              /\ sub'.pc \in {"done", "saveStudent"}
              /\ sub'.pc = "done" => sub'.status \in {400, 403, 404}
              /\ sub'.teacherId = "bad" => sub'.pc = "done" /\ sub'.status = 400
              /\ sub'.pc = "saveStudent" =>
                    /\ users[sub'.userId].exists
                    /\ RoleOf(sub'.userId) = "student" =>
                          users[sub'.userId].attendance >= 75
              /\ sub'.status = 403 =>
                    \E u \in Submitters :
                        users[u].exists /\ users[u].attendance < 75
              /\ \A u \in Submitters :
                    users[u].exists /\ RoleOf(u) = "student" /\ users[u].attendance < 75
                        => sub'.userId # u
        /\ py' # py /\ py'.state = "running" /\ py.state # "running" =>
              sub.pc = "saveStudent"
        /\ feedbacks' # feedbacks => sub.pc = "sentiment" /\ sub'.status = 201
      ]_vars

\* After a first submission was stored the admin lowered the student's
\* attendance to 70; the second submission was answered 403 and the store
\* still holds the one record, with no python process started.
C18_Witness ==
    /\ sub.pc = "done" /\ sub.status = 403
    /\ users["s1"].attendance = 70
    /\ started.submits = 2
    /\ Len(feedbacks) = 1
    /\ py = PyIdle

\* A submission with a malformed teacherId was answered 400, one by a user
\* that does not exist 404; nothing is stored.
C18_RejectedMalformed ==
    sub.pc = "done" /\ sub.status = 400 /\ sub.teacherId = "bad" /\ feedbacks = <<>>

C18_RejectedUnknownUser ==
    sub.pc = "done" /\ sub.status = 404 /\ feedbacks = <<>> /\ py = PyIdle

====
